---- MODULE Spec2Model ----
(***************************************************************************)
(* Swept AABB-2D (Main.cpp): the swept collision test SweptAABB, the       *)
(* per-tick update and the bodies it moves.                                *)
(*                                                                         *)
(* Numbers.  The program computes in float; the model computes in exact    *)
(* rationals [n, d] (d > 0, lowest terms), so rounding is not modelled.    *)
(* d = 0 encodes the two infinities of std::numeric_limits<float>:         *)
(* [n |-> -1, d |-> 0] and [n |-> 1, d |-> 0].                             *)
(* Lengths are in units of 0.0001 world units, so 0.7 is 7000.             *)
(***************************************************************************)
EXTENDS Integers, Sequences, FiniteSets, TLC

\* ------------------------------------------------------------------------
\* Bounds of the model (not program constants)
\* ------------------------------------------------------------------------
MaxCoord == 5      \* box1 corners of the swept harness range over 0..MaxCoord
MaxExt   == 1      \* box1 extents of the swept harness range over 0..MaxExt
MaxDisp  == 2      \* displacement components range over -MaxDisp..MaxDisp
MaxTicks == 300    \* physics ticks run from the configured start
SampleDen == 12    \* instants sampled in [0, t) are t*k/SampleDen

\* ------------------------------------------------------------------------
\* Exact arithmetic standing for float arithmetic
\* ------------------------------------------------------------------------
AbsInt(i) == IF i < 0 THEN -i ELSE i

RECURSIVE GCD(_, _)
GCD(a, b) == IF b = 0 THEN a ELSE GCD(b, a % b)

\* the rational n/d for d # 0, in lowest terms with a positive denominator
R(n, d) ==
    LET s == IF d < 0 THEN -1 ELSE 1
        g == GCD(AbsInt(n), AbsInt(d))
    IN  [n |-> (s * n) \div g, d |-> (s * d) \div g]

Zero == R(0, 1)
One == R(1, 1)
Two == R(2, 1)
NegInf == [n |-> -1, d |-> 0]
PosInf == [n |-> 1, d |-> 0]

IsFinite(a) == a.d # 0

RAdd(a, b) == R(a.n * b.d + b.n * a.d, a.d * b.d)
RNeg(a) == [n |-> -a.n, d |-> a.d]
RSub(a, b) == RAdd(a, RNeg(b))
RMul(a, b) == R(a.n * b.n, a.d * b.d)
RDiv(a, b) == R(a.n * b.d, a.d * b.n)
RLt(a, b) == IF a.d = 0 /\ b.d = 0 THEN a.n < b.n ELSE a.n * b.d < b.n * a.d
RGt(a, b) == RLt(b, a)
RLe(a, b) == ~RLt(b, a)
RGe(a, b) == ~RLt(a, b)
RAbs(a) == [n |-> AbsInt(a.n), d |-> a.d]
\* std::max(a, b) is (a < b) ? b : a, std::min(a, b) is (b < a) ? b : a
RMax(a, b) == IF RLt(a, b) THEN b ELSE a
RMin(a, b) == IF RLt(b, a) THEN b ELSE a

Vec(x, y) == [x |-> x, y |-> y]
VAdd(u, v) == Vec(RAdd(u.x, v.x), RAdd(u.y, v.y))
VSub(u, v) == Vec(RSub(u.x, v.x), RSub(u.y, v.y))
VScale(u, k) == Vec(RMul(u.x, k), RMul(u.y, k))

\* ------------------------------------------------------------------------
\* Program constants
\* ------------------------------------------------------------------------
physicsStep == R(12, 1000)       \* double physicsStep = 0.012
speed == R(9000, 1)              \* float speed = 0.90f
BoundX == R(9000, 1)             \* fabsf(tempPos.x) > 0.9f
BoundY == R(8000, 1)             \* fabsf(tempPos.y) > 0.8f
NormalEps == R(1, 10000)         \* abs(normalx) > 0.0001f

\* what an uninitialised float local of update may hold: zero, exactly the
\* epsilon, and a value that is none of the normals SweptAABB writes
Garbage == {Zero, NormalEps, R(-3, 1)}

\* ------------------------------------------------------------------------
\* AABB and the swept test
\* ------------------------------------------------------------------------
Box(minx, miny, maxx, maxy) == [min |-> Vec(minx, miny), max |-> Vec(maxx, maxy)]

\* bool TestAABB(AABB a, AABB b): closed boxes intersect
TestAABB(a, b) ==
    IF RLt(a.max.x, b.min.x) \/ RGt(a.min.x, b.max.x) THEN FALSE
    ELSE IF RLt(a.max.y, b.min.y) \/ RGt(a.min.y, b.max.y) THEN FALSE
    ELSE TRUE

\* DistanceEntry measuring from the wrong face of box1 when moving forward
DistanceEntry_WrongFace(box1, box2, vel1, c) ==
    IF RGt(vel1[c], Zero)
    THEN RSub(box2.min[c], box1.min[c])
    ELSE RSub(box2.max[c], box1.min[c])

\* distances on one axis; c is "x" or "y"
DistanceEntry(box1, box2, vel1, c) ==
    IF RGt(vel1[c], Zero)
    THEN RSub(box2.min[c], box1.max[c])
    ELSE RSub(box2.max[c], box1.min[c])

DistanceExit(box1, box2, vel1, c) ==
    IF RGt(vel1[c], Zero)
    THEN RSub(box2.max[c], box1.min[c])
    ELSE RSub(box2.min[c], box1.max[c])

xDistanceEntry(box1, box2, vel1) == DistanceEntry(box1, box2, vel1, "x")
yDistanceEntry(box1, box2, vel1) == DistanceEntry(box1, box2, vel1, "y")
xDistanceExit(box1, box2, vel1) == DistanceExit(box1, box2, vel1, "x")
yDistanceExit(box1, box2, vel1) == DistanceExit(box1, box2, vel1, "y")

\* AxisApart counting boxes that just touch as apart
AxisApart_TouchIsApart(box1, box2, vel1, c) ==
    RGe(RMax(RAbs(DistanceEntry(box1, box2, vel1, c)),
             RAbs(DistanceExit(box1, box2, vel1, c))),
        RAdd(RSub(box1.max[c], box1.min[c]), RSub(box2.max[c], box2.min[c])))

\* the zero-velocity test of one axis: the boxes cannot meet on it
AxisApart(box1, box2, vel1, c) ==
    RGt(RMax(RAbs(DistanceEntry(box1, box2, vel1, c)),
             RAbs(DistanceExit(box1, box2, vel1, c))),
        RAdd(RSub(box1.max[c], box1.min[c]), RSub(box2.max[c], box2.min[c])))

\* EntryTime with 0 in place of -infinity on an axis that does not move
EntryTime_ZeroNotInf(box1, box2, vel1, c) ==
    IF vel1[c] = Zero
    THEN IF AxisApart(box1, box2, vel1, c) THEN Two ELSE Zero
    ELSE RDiv(DistanceEntry(box1, box2, vel1, c), vel1[c])

EntryTime(box1, box2, vel1, c) ==
    IF vel1[c] = Zero
    THEN IF AxisApart(box1, box2, vel1, c) THEN Two ELSE NegInf
    ELSE RDiv(DistanceEntry(box1, box2, vel1, c), vel1[c])

ExitTime(box1, box2, vel1, c) ==
    IF vel1[c] = Zero
    THEN PosInf
    ELSE RDiv(DistanceExit(box1, box2, vel1, c), vel1[c])

xEntryTime(box1, box2, vel1) == EntryTime(box1, box2, vel1, "x")
yEntryTime(box1, box2, vel1) == EntryTime(box1, box2, vel1, "y")
xExitTime(box1, box2, vel1) == ExitTime(box1, box2, vel1, "x")
yExitTime(box1, box2, vel1) == ExitTime(box1, box2, vel1, "y")

entryTime(box1, box2, vel1) ==
    RMax(xEntryTime(box1, box2, vel1), yEntryTime(box1, box2, vel1))

exitTime(box1, box2, vel1) ==
    RMin(xExitTime(box1, box2, vel1), yExitTime(box1, box2, vel1))

\* NoCollision without the test for two negative entry times
NoCollision_NoNegativeTest(box1, box2, vel1) ==
    \/ RGt(entryTime(box1, box2, vel1), exitTime(box1, box2, vel1))
    \/ RGt(xEntryTime(box1, box2, vel1), One)
    \/ RGt(yEntryTime(box1, box2, vel1), One)

\* NoCollision answering no collision as soon as one axis entry time is negative
NoCollision_EitherNegative(box1, box2, vel1) ==
    \/ RGt(entryTime(box1, box2, vel1), exitTime(box1, box2, vel1))
    \/ (RLt(xEntryTime(box1, box2, vel1), Zero) \/ RLt(yEntryTime(box1, box2, vel1), Zero))
    \/ RGt(xEntryTime(box1, box2, vel1), One)
    \/ RGt(yEntryTime(box1, box2, vel1), One)

\* NoCollision without the two tests against 1.0f
NoCollision_NoUpperBound(box1, box2, vel1) ==
    \/ RGt(entryTime(box1, box2, vel1), exitTime(box1, box2, vel1))
    \/ (RLt(xEntryTime(box1, box2, vel1), Zero) /\ RLt(yEntryTime(box1, box2, vel1), Zero))

\* NoCollision with || binding tighter than &&
NoCollision_Regrouped(box1, box2, vel1) ==
    /\ (RGt(entryTime(box1, box2, vel1), exitTime(box1, box2, vel1))
           \/ RLt(xEntryTime(box1, box2, vel1), Zero))
    /\ (RLt(yEntryTime(box1, box2, vel1), Zero)
           \/ RGt(xEntryTime(box1, box2, vel1), One)
           \/ RGt(yEntryTime(box1, box2, vel1), One))

\* the condition of the if at the end of SweptAABB; && binds tighter than ||
NoCollision(box1, box2, vel1) ==
    \/ RGt(entryTime(box1, box2, vel1), exitTime(box1, box2, vel1))
    \/ (RLt(xEntryTime(box1, box2, vel1), Zero) /\ RLt(yEntryTime(box1, box2, vel1), Zero))
    \/ RGt(xEntryTime(box1, box2, vel1), One)
    \/ RGt(yEntryTime(box1, box2, vel1), One)

\* Collision writing the zero normal on an exact tie
Collision_TieWritesZero(en, xe, ye, xd, yd, normalx, normaly) ==
    IF RGt(xe, ye)
    THEN IF RLt(xd, Zero)
         THEN [ret |-> en, normalx |-> One, normaly |-> Zero]
         ELSE [ret |-> en, normalx |-> RNeg(One), normaly |-> Zero]
    ELSE IF RGt(ye, xe)
    THEN IF RLt(yd, Zero)
         THEN [ret |-> en, normalx |-> Zero, normaly |-> One]
         ELSE [ret |-> en, normalx |-> Zero, normaly |-> RNeg(One)]
    ELSE [ret |-> en, normalx |-> Zero, normaly |-> Zero]

\* Collision putting the normal on the axis with the smaller entry time
Collision_SmallerAxis(en, xe, ye, xd, yd, normalx, normaly) ==
    IF RLt(xe, ye)
    THEN IF RLt(xd, Zero)
         THEN [ret |-> en, normalx |-> One, normaly |-> Zero]
         ELSE [ret |-> en, normalx |-> RNeg(One), normaly |-> Zero]
    ELSE IF RLt(ye, xe)
    THEN IF RLt(yd, Zero)
         THEN [ret |-> en, normalx |-> Zero, normaly |-> One]
         ELSE [ret |-> en, normalx |-> Zero, normaly |-> RNeg(One)]
    ELSE [ret |-> en, normalx |-> normalx, normaly |-> normaly]

\* the else branch of SweptAABB: the normal of the collided surface and the
\* returned time; xe, ye are the axis entry times, en their maximum, xd, yd
\* the entry distances, normalx, normaly the caller's variables
Collision(en, xe, ye, xd, yd, normalx, normaly) ==
    IF RGt(xe, ye)
    THEN IF RLt(xd, Zero)
         THEN [ret |-> en, normalx |-> One, normaly |-> Zero]
         ELSE [ret |-> en, normalx |-> RNeg(One), normaly |-> Zero]
    ELSE IF RGt(ye, xe)
    THEN IF RLt(yd, Zero)
         THEN [ret |-> en, normalx |-> Zero, normaly |-> One]
         ELSE [ret |-> en, normalx |-> Zero, normaly |-> RNeg(One)]
    ELSE [ret |-> en, normalx |-> normalx, normaly |-> normaly]

\* float SweptAABB(box1, box2, vel1, float& normalx, float& normaly):
\* the returned time and the caller's two variables after the call.
\* normalx, normaly are what the caller's variables hold before the call.
SweptAABB(box1, box2, vel1, normalx, normaly) ==
    IF NoCollision(box1, box2, vel1)
    THEN [ret |-> Two, normalx |-> Zero, normaly |-> Zero]
    ELSE Collision(entryTime(box1, box2, vel1),
                   xEntryTime(box1, box2, vel1), yEntryTime(box1, box2, vel1),
                   xDistanceEntry(box1, box2, vel1), yDistanceEntry(box1, box2, vel1),
                   normalx, normaly)

\* ------------------------------------------------------------------------
\* State
\* ------------------------------------------------------------------------
VARIABLES
    obj1,           \* GameObject* obj1: the stationary body
    obj2,           \* GameObject* obj2: the moving body
    arg,            \* the arguments box1, box2, vel1 of the SweptAABB call
    normalx,        \* the caller's float normalx
    normaly,        \* the caller's float normaly
    collisionTime,  \* what the last SweptAABB call returned
    atImpact,       \* obj2 between the two sub-steps of update
    hist,           \* results of the calls made on arg by the harness
    pc,             \* "tick": between physics ticks; "declare", "call", "done": harness;
                    \* "frame": between frames; "loop": at the while of checkTime
    ticks,          \* physics ticks run so far
    time,           \* double time: the clock as last read by checkTime
    timebase,       \* double timebase: the clock when time was last added
    accumulator,    \* double accumulator
    frameDt,        \* the local dt of the last checkTime call
    calls,          \* update calls made by the last checkTime call
    accBefore,      \* accumulator on entry to the last checkTime call
    total           \* sum of what the checkTime calls have added to accumulator

sched == <<time, timebase, accumulator, frameDt, calls, accBefore, total>>

vars == <<obj1, obj2, arg, normalx, normaly, collisionTime, atImpact, hist, pc, ticks,
          time, timebase, accumulator, frameDt, calls, accBefore, total>>

\* ------------------------------------------------------------------------
\* GameObject
\* ------------------------------------------------------------------------
\* the square model has its corners at (-1,-1) and (1,1), so the box of a
\* body is its position plus and minus its scale
CalculateAABB(o) ==
    [o EXCEPT !.aabb = [min |-> VSub(o.position, o.scale),
                        max |-> VAdd(o.position, o.scale)]]

SetVelocity(o, v) == [o EXCEPT !.velocity = v]

\* GameObject::Update(dt): the body moves by velocity * dt
Update(o, dt) == [o EXCEPT !.position = VAdd(o.position, VScale(o.velocity, dt))]

GameObject(position, velocity, scale) ==
    CalculateAABB([position |-> position, velocity |-> velocity, scale |-> scale,
                   aabb |-> [min |-> position, max |-> position]])

\* init(): the configured scenario
InitObj1 == GameObject(Vec(Zero, Zero), Vec(Zero, Zero), Vec(R(2500, 1), R(2500, 1)))
InitObj2 == GameObject(Vec(R(7000, 1), R(7000, 1)), Vec(RNeg(speed), RNeg(speed)),
                       Vec(R(500, 1), R(500, 1)))

\* ------------------------------------------------------------------------
\* update
\* ------------------------------------------------------------------------
\* BoundaryBounce without the test of the y position
BoundaryBounce_XOnly(o) ==
    LET vx == IF RGt(RAbs(o.position.x), BoundX) THEN RNeg(o.velocity.x) ELSE o.velocity.x
    IN  SetVelocity(o, Vec(vx, o.velocity.y))

\* BoundaryBounce testing the y position against the x bound
BoundaryBounce_SharedBound(o) ==
    LET vx == IF RGt(RAbs(o.position.x), BoundX) THEN RNeg(o.velocity.x) ELSE o.velocity.x
        vy == IF RGt(RAbs(o.position.y), BoundX) THEN RNeg(o.velocity.y) ELSE o.velocity.y
    IN  SetVelocity(o, Vec(vx, vy))

\* the world-boundary bounce at the head of update
BoundaryBounce(o) ==
    LET vx == IF RGt(RAbs(o.position.x), BoundX) THEN RNeg(o.velocity.x) ELSE o.velocity.x
        vy == IF RGt(RAbs(o.position.y), BoundY) THEN RNeg(o.velocity.y) ELSE o.velocity.y
    IN  SetVelocity(o, Vec(vx, vy))

\* Reflect losing half of the speed in the bounce
Reflect_Halved(velocity, nx, ny) ==
    Vec(IF RGt(RAbs(nx), NormalEps) THEN RDiv(RNeg(velocity.x), Two) ELSE velocity.x,
        IF RGt(RAbs(ny), NormalEps) THEN RDiv(RNeg(velocity.y), Two) ELSE velocity.y)

\* Reflect leaving a velocity component below the epsilon as it is
Reflect_SmallVelocityKept(velocity, nx, ny) ==
    Vec(IF RGt(RAbs(nx), NormalEps) /\ RGe(RAbs(velocity.x), R(1, 1))
        THEN RNeg(velocity.x) ELSE velocity.x,
        IF RGt(RAbs(ny), NormalEps) /\ RGe(RAbs(velocity.y), R(1, 1))
        THEN RNeg(velocity.y) ELSE velocity.y)

\* the bounced velocity of the collision response
Reflect(velocity, nx, ny) ==
    Vec(IF RGt(RAbs(nx), NormalEps) THEN RNeg(velocity.x) ELSE velocity.x,
        IF RGt(RAbs(ny), NormalEps) THEN RNeg(velocity.y) ELSE velocity.y)

\* SplitStep handing the bounced velocity to obj1
SplitStep_SetObj1(b1, b2, dt, t, remainingTime, velocity) ==
    [obj1 |-> Update(SetVelocity(Update(b1, RMul(t, dt)), velocity), RMul(remainingTime, dt)),
     obj2 |-> Update(Update(b2, RMul(t, dt)), RMul(remainingTime, dt)),
     atImpact |-> Update(b2, RMul(t, dt))]

\* the two sub-steps of the collision branch: both bodies move for
\* collisionTime * dt, obj2 takes the bounced velocity, both move for
\* remainingTime * dt
SplitStep(b1, b2, dt, t, remainingTime, velocity) ==
    [obj1 |-> Update(Update(b1, RMul(t, dt)), RMul(remainingTime, dt)),
     obj2 |-> Update(SetVelocity(Update(b2, RMul(t, dt)), velocity), RMul(remainingTime, dt)),
     atImpact |-> Update(b2, RMul(t, dt))]

\* Respond that sets the bounced velocity before the pre-impact sub-step
Respond_ReflectFirst(b1, b2, dt, r, remainingTime) ==
    IF RGe(remainingTime, Zero)
    THEN SplitStep(b1, SetVelocity(b2, Reflect(b2.velocity, r.normalx, r.normaly)), dt,
                   r.ret, remainingTime, Reflect(b2.velocity, r.normalx, r.normaly))
    ELSE [obj1 |-> Update(b1, dt), obj2 |-> Update(b2, dt), atImpact |-> b2]

\* Respond whose no-collision branch moves obj2 by remainingTime * dt
Respond_RemainingInElse(b1, b2, dt, r, remainingTime) ==
    IF RGe(remainingTime, Zero)
    THEN SplitStep(b1, b2, dt, r.ret, remainingTime,
                   Reflect(b2.velocity, r.normalx, r.normaly))
    ELSE [obj1 |-> Update(b1, dt), obj2 |-> Update(b2, RMul(remainingTime, dt)), atImpact |-> b2]

\* the if (remainingTime >= 0.0f) ... else ... of update; r is what SweptAABB
\* gave back, b1 and b2 the bodies after the boundary bounce
Respond(b1, b2, dt, r, remainingTime) ==
    IF RGe(remainingTime, Zero)
    THEN SplitStep(b1, b2, dt, r.ret, remainingTime,
                   Reflect(b2.velocity, r.normalx, r.normaly))
    ELSE [obj1 |-> Update(b1, dt), obj2 |-> Update(b2, dt), atImpact |-> b2]

\* the call of SweptAABB in update and what follows it
Sweep(b1, b2, dt, a, r) ==
    [moved |-> Respond(b1, b2, dt, r, RSub(One, r.ret)),
     arg |-> a, normalx |-> r.normalx, normaly |-> r.normaly, collisionTime |-> r.ret]

SweptArgs(b1, b2, dt) ==
    [box1 |-> b2.aabb, box2 |-> b1.aabb, vel1 |-> VScale(b2.velocity, dt)]

\* void update(float dt) on bodies o1, o2; gx, gy are what the uninitialised
\* locals normalx, normaly hold when SweptAABB is called
update(o1, o2, dt, gx, gy) ==
    LET b1 == CalculateAABB(o1)
        b2 == CalculateAABB(BoundaryBounce(o2))
    IN  Sweep(b1, b2, dt, SweptArgs(b1, b2, dt),
              SweptAABB(b2.aabb, b1.aabb, VScale(b2.velocity, dt), gx, gy))

\* ------------------------------------------------------------------------
\* The program from its configured start, one physics tick per step
\* ------------------------------------------------------------------------
NoArg == [box1 |-> InitObj2.aabb, box2 |-> InitObj1.aabb, vel1 |-> Vec(Zero, Zero)]

\* double timebase = 0; double accumulator = 0.0; no checkTime call made yet
InitSched ==
    /\ time = Zero
    /\ timebase = Zero
    /\ accumulator = Zero
    /\ frameDt = Zero
    /\ calls = 0
    /\ accBefore = Zero
    /\ total = Zero

InitTick ==
    /\ obj1 = InitObj1
    /\ obj2 = InitObj2
    /\ arg = NoArg
    /\ normalx = Zero
    /\ normaly = Zero
    /\ collisionTime = Two
    /\ atImpact = InitObj2
    /\ hist = <<>>
    /\ pc = "tick"
    /\ ticks = 0
    /\ InitSched

Tick ==
    /\ pc = "tick"
    /\ ticks < MaxTicks
    /\ \E gx \in Garbage, gy \in Garbage :
          LET u == update(obj1, obj2, physicsStep, gx, gy)
          IN  /\ obj1' = u.moved.obj1
              /\ obj2' = u.moved.obj2
              /\ arg' = u.arg
              /\ normalx' = u.normalx
              /\ normaly' = u.normaly
              /\ collisionTime' = u.collisionTime
              /\ atImpact' = u.moved.atImpact
    /\ ticks' = ticks + 1
    /\ UNCHANGED <<hist, pc>>
    /\ UNCHANGED sched

NextTick == Tick

SpecTick == InitTick /\ [][NextTick]_vars

\* ------------------------------------------------------------------------
\* SweptAABB on its own: a caller that declares the two normals and calls,
\* twice on the same box1, box2, vel1
\* ------------------------------------------------------------------------
ObMin == 3         \* box2 of the harness has its min corner at (ObMin, ObMin)

HarnessBox1 ==
    { Box(R(ax, 1), R(ay, 1), R(ax + w, 1), R(ay + h, 1)) :
        ax \in 0..MaxCoord, ay \in 0..MaxCoord, w \in 0..MaxExt, h \in 0..MaxExt }

\* box2 is the unit square at (ObMin, ObMin)
HarnessBox2 ==
    { Box(R(ObMin, 1), R(ObMin, 1), RAdd(R(ObMin, 1), One), RAdd(R(ObMin, 1), One)) }

HarnessVel ==
    { Vec(R(dx, 1), R(dy, 1)) : dx \in -MaxDisp..MaxDisp, dy \in -MaxDisp..MaxDisp }

InitSwept ==
    /\ obj1 = InitObj1
    /\ obj2 = InitObj2
    /\ arg \in [box1 : HarnessBox1, box2 : HarnessBox2, vel1 : HarnessVel]
    /\ normalx = Zero
    /\ normaly = Zero
    /\ collisionTime = Two
    /\ atImpact = InitObj2
    /\ hist = <<>>
    /\ pc = "declare"
    /\ ticks = 0
    /\ InitSched

\* float normalx, normaly;  -- the caller's locals, not initialised
DeclareNormals ==
    /\ pc = "declare"
    /\ normalx' \in Garbage
    /\ normaly' \in Garbage
    /\ pc' = "call"
    /\ UNCHANGED <<obj1, obj2, arg, collisionTime, atImpact, hist, ticks>>
    /\ UNCHANGED sched

\* collisionTime = SweptAABB(box1, box2, vel1, normalx, normaly)
SweptCall ==
    /\ pc = "call"
    /\ LET r == SweptAABB(arg.box1, arg.box2, arg.vel1, normalx, normaly)
       IN  /\ collisionTime' = r.ret
           /\ normalx' = r.normalx
           /\ normaly' = r.normaly
           /\ hist' = Append(hist, r)
    /\ pc' = IF hist = <<>> THEN "declare" ELSE "done"
    /\ UNCHANGED <<obj1, obj2, arg, atImpact, ticks>>
    /\ UNCHANGED sched

NextSwept == DeclareNormals \/ SweptCall

SpecSwept == InitSwept /\ [][NextSwept]_vars

\* the last step was a return of SweptAABB
Returned == hist # <<>> /\ pc \in {"declare", "done"}

\* the program and the harness side by side
InitAll == InitTick \/ InitSwept
NextAll == Tick \/ DeclareNormals \/ SweptCall
SpecAll == InitAll /\ [][NextAll]_vars

\* ------------------------------------------------------------------------
\* The whole program: main's loop calls checkTime once a frame, and
\* checkTime runs the physics ticks.  The frame counter and the FPS figure
\* in the window title do not reach the simulation and are left out.
\* ------------------------------------------------------------------------
MaxTime == 480     \* the clock is followed up to MaxTime milliseconds

MaxFrame == R(250, 1000)         \* if (dt > 0.25) dt = 0.25

\* what glfwGetTime may have advanced by between two checkTime calls: one
\* step exactly, a few steps, a stall beyond the cap
FrameGaps == {R(12, 1000), R(50, 1000), R(300, 1000)}

\* ClampDt with the cap at half a second
ClampDt_HalfSecond(d) == IF RGt(d, R(500, 1000)) THEN R(500, 1000) ELSE d

\* ClampDt without the cap
ClampDt_None(d) == d

\* if (dt > 0.25) dt = 0.25
ClampDt(d) == IF RGt(d, MaxFrame) THEN MaxFrame ELSE d

\* StepDue asking for more than one step
StepDue_Strict(acc) == RGt(acc, physicsStep)

\* the condition of the while of checkTime
StepDue(acc) == RGe(acc, physicsStep)

\* Consume taking two steps off for one update
Consume_TwoSteps(acc) == RSub(acc, RMul(Two, physicsStep))

\* Consume throwing the rest of the accumulator away
Consume_Discard(acc) == Zero

\* accumulator -= physicsStep
Consume(acc) == RSub(acc, physicsStep)

InitProgram ==
    /\ obj1 = InitObj1
    /\ obj2 = InitObj2
    /\ arg = NoArg
    /\ normalx = Zero
    /\ normaly = Zero
    /\ collisionTime = Two
    /\ atImpact = InitObj2
    /\ hist = <<>>
    /\ pc = "frame"
    /\ ticks = 0
    /\ InitSched

\* checkTime adding the elapsed time however short it is
checkTime_NoThreshold(now) ==
    /\ pc = "frame"
    /\ time' = now
    /\ accBefore' = accumulator
    /\ calls' = 0
    /\ timebase' = now
    /\ frameDt' = ClampDt(RSub(now, timebase))
    /\ accumulator' = RAdd(accumulator, ClampDt(RSub(now, timebase)))
    /\ total' = RAdd(total, ClampDt(RSub(now, timebase)))
    /\ pc' = "loop"
    /\ UNCHANGED <<obj1, obj2, arg, normalx, normaly, collisionTime, atImpact, hist, ticks>>

\* checkTime() down to its while: now is what glfwGetTime() returns
checkTime(now) ==
    /\ pc = "frame"
    /\ time' = now
    /\ accBefore' = accumulator
    /\ calls' = 0
    /\ IF RGt(RSub(now, timebase), physicsStep)
       THEN /\ timebase' = now
            /\ frameDt' = ClampDt(RSub(now, timebase))
            /\ accumulator' = RAdd(accumulator, ClampDt(RSub(now, timebase)))
            /\ total' = RAdd(total, ClampDt(RSub(now, timebase)))
            /\ pc' = "loop"
       ELSE /\ frameDt' = RSub(now, timebase)
            /\ UNCHANGED <<timebase, accumulator, total, pc>>
    /\ UNCHANGED <<obj1, obj2, arg, normalx, normaly, collisionTime, atImpact, hist, ticks>>

Frame ==
    \E gap \in FrameGaps :
        /\ RLe(RAdd(time, gap), R(MaxTime, 1000))
        /\ checkTime(RAdd(time, gap))

\* one turn of the while: update(physicsStep); accumulator -= physicsStep
WhileUpdate ==
    /\ pc = "loop"
    /\ StepDue(accumulator)
    /\ \E gx \in Garbage, gy \in Garbage :
          LET u == update(obj1, obj2, physicsStep, gx, gy)
          IN  /\ obj1' = u.moved.obj1
              /\ obj2' = u.moved.obj2
              /\ arg' = u.arg
              /\ normalx' = u.normalx
              /\ normaly' = u.normaly
              /\ collisionTime' = u.collisionTime
              /\ atImpact' = u.moved.atImpact
    /\ accumulator' = Consume(accumulator)
    /\ ticks' = ticks + 1
    /\ calls' = calls + 1
    /\ UNCHANGED <<hist, pc, time, timebase, frameDt, accBefore, total>>

\* the while ends and checkTime returns
WhileExit ==
    /\ pc = "loop"
    /\ ~StepDue(accumulator)
    /\ pc' = "frame"
    /\ UNCHANGED <<obj1, obj2, arg, normalx, normaly, collisionTime, atImpact, hist, ticks>>
    /\ UNCHANGED sched

Next == Frame \/ WhileUpdate \/ WhileExit

Spec == InitProgram /\ [][Next]_vars

\* what a step of the while does to the control state: one more update made,
\* or the return
WhileTurn ==
    /\ pc = "loop"
    /\ \/ (calls' = calls + 1 /\ pc' = pc)
       \/ (calls' = calls /\ pc' = "frame")

\* checkTime runs on main's only thread: once it is at its while, the turn
\* that is due, or the return, is taken
SpecFair == Spec /\ WF_<<pc, calls>>(WhileTurn)

\* SweptAABB has been called on arg and collisionTime, normalx, normaly are its results
AfterCall == Returned \/ (pc = "tick" /\ ticks > 0)

Collided == RLe(collisionTime, One)

FiveNormals ==
    { <<Zero, Zero>>, <<One, Zero>>, <<RNeg(One), Zero>>, <<Zero, One>>, <<Zero, RNeg(One)>> }

Translate(b, v) == [min |-> VAdd(b.min, v), max |-> VAdd(b.max, v)]

InteriorOverlap(a, b) ==
    /\ RLt(a.min.x, b.max.x) /\ RLt(b.min.x, a.max.x)
    /\ RLt(a.min.y, b.max.y) /\ RLt(b.min.y, a.max.y)

\* ------------------------------------------------------------------------
\* update on its own: one call on the configured obstacle and a moving body
\* placed on or outside the obstacle's faces, with a velocity whose
\* components are zero, below 1e-4 in magnitude, or the configured speed
\* ------------------------------------------------------------------------
HarnessCoord == {R(-3000, 1), R(-1000, 1), R(1000, 1), R(3000, 1), R(5000, 1)}

HarnessSpeed == {Zero, R(1, 2), R(-1, 2), speed, RNeg(speed)}

HarnessBody ==
    { GameObject(Vec(px, py), Vec(vx, vy), InitObj2.scale) :
        px \in HarnessCoord, py \in HarnessCoord, vx \in HarnessSpeed, vy \in HarnessSpeed }

InitUpdate ==
    /\ obj1 = InitObj1
    /\ obj2 \in { b \in HarnessBody : ~InteriorOverlap(b.aabb, InitObj1.aabb) }
    /\ arg = NoArg
    /\ normalx = Zero
    /\ normaly = Zero
    /\ collisionTime = Two
    /\ atImpact = obj2
    /\ hist = <<>>
    /\ pc = "ready"
    /\ ticks = 0
    /\ InitSched

\* update(physicsStep)
UpdateCall ==
    /\ pc = "ready"
    /\ \E gx \in Garbage, gy \in Garbage :
          LET u == update(obj1, obj2, physicsStep, gx, gy)
          IN  /\ obj1' = u.moved.obj1
              /\ obj2' = u.moved.obj2
              /\ arg' = u.arg
              /\ normalx' = u.normalx
              /\ normaly' = u.normaly
              /\ collisionTime' = u.collisionTime
              /\ atImpact' = u.moved.atImpact
    /\ pc' = "updated"
    /\ ticks' = ticks + 1
    /\ UNCHANGED hist
    /\ UNCHANGED sched

NextUpdate == UpdateCall

SpecUpdate == InitUpdate /\ [][NextUpdate]_vars

\* ------------------------------------------------------------------------
\* update on a body that is already inside the obstacle, partly or wholly,
\* beside the configured run
\* ------------------------------------------------------------------------
InsideCoord == {R(-2900, 1), R(-1000, 1), Zero, R(2600, 1)}

InsideBody ==
    { GameObject(Vec(px, py), Vec(vx, vy), InitObj2.scale) :
        px \in InsideCoord, py \in InsideCoord, vx \in HarnessSpeed, vy \in HarnessSpeed }

InitInside ==
    /\ obj1 = InitObj1
    /\ obj2 \in { b \in InsideBody : InteriorOverlap(b.aabb, InitObj1.aabb) }
    /\ arg = NoArg
    /\ normalx = Zero
    /\ normaly = Zero
    /\ collisionTime = Two
    /\ atImpact = obj2
    /\ hist = <<>>
    /\ pc = "ready"
    /\ ticks = 0
    /\ InitSched

InitOverlap == InitTick \/ InitInside
NextOverlap == Tick \/ UpdateCall
SpecOverlap == InitOverlap /\ [][NextOverlap]_vars

\* ------------------------------------------------------------------------
\* C1: SweptAABB returns either the sentinel 2.0 or a time t with 0 <= t <= 1
\* ------------------------------------------------------------------------
C1_TimeRange ==
    Returned => \/ collisionTime = Two
                \/ (RLe(Zero, collisionTime) /\ RLe(collisionTime, One))

C1_Witness == Returned /\ RLt(Zero, collisionTime) /\ RLt(collisionTime, One)

\* ------------------------------------------------------------------------
\* C2: once SweptAABB has returned in update, the normal it handed back is
\* one of (0,0), (1,0), (-1,0), (0,1), (0,-1)
\* ------------------------------------------------------------------------
C2_NormalInFive == AfterCall => <<normalx, normaly>> \in FiveNormals

\* ------------------------------------------------------------------------
\* C3: SweptAABB returns 2.0 with normal (0,0) exactly when
\* entryTime > exitTime, or both axis entry times are negative, or
\* xEntryTime > 1, or yEntryTime > 1; otherwise it returns entryTime
\* ------------------------------------------------------------------------
C3_NoCollisionExactly ==
    Returned =>
        LET xe == xEntryTime(arg.box1, arg.box2, arg.vel1)
            ye == yEntryTime(arg.box1, arg.box2, arg.vel1)
            en == IF RLt(xe, ye) THEN ye ELSE xe
            xx == xExitTime(arg.box1, arg.box2, arg.vel1)
            yx == yExitTime(arg.box1, arg.box2, arg.vel1)
            ex == IF RLt(yx, xx) THEN yx ELSE xx
            miss == \/ RGt(en, ex)
                    \/ (RLt(xe, Zero) /\ RLt(ye, Zero))
                    \/ RGt(xe, One)
                    \/ RGt(ye, One)
            sentinel == collisionTime = Two /\ normalx = Zero /\ normaly = Zero
        IN  /\ miss <=> sentinel
            /\ ~miss => collisionTime = en

\* the grazing miss: entryTime > exitTime is the only disjunct that holds
C3_Witness ==
    /\ Returned
    /\ collisionTime = Two
    /\ RGt(entryTime(arg.box1, arg.box2, arg.vel1), exitTime(arg.box1, arg.box2, arg.vel1))
    /\ RGe(xEntryTime(arg.box1, arg.box2, arg.vel1), Zero)
    /\ RGe(yEntryTime(arg.box1, arg.box2, arg.vel1), Zero)
    /\ RLe(xEntryTime(arg.box1, arg.box2, arg.vel1), One)
    /\ RLe(yEntryTime(arg.box1, arg.box2, arg.vel1), One)

\* ------------------------------------------------------------------------
\* C4: a reported collision time t is the instant of first contact: box1
\* moved by t*vel1 touches box2 (closed overlap on both axes, gap 0 on the
\* colliding axis), box1 moved by s*vel1 is disjoint from box2 for the
\* sampled s in [0, t), and update's pre-impact sub-step leaves the moving
\* body exactly there, not inside the obstacle
\* ------------------------------------------------------------------------
GapZero(a, b, c) == a.max[c] = b.min[c] \/ a.min[c] = b.max[c]

C4_FirstContact ==
    (AfterCall /\ Collided /\ ~InteriorOverlap(arg.box1, arg.box2)) =>
        LET t == collisionTime
            At == Translate(arg.box1, VScale(arg.vel1, t))
            colliding == { c \in {"x", "y"} : EntryTime(arg.box1, arg.box2, arg.vel1, c) = t }
        IN  /\ TestAABB(At, arg.box2)
            /\ colliding # {}
            /\ \A c \in colliding : GapZero(At, arg.box2, c)
            /\ \A k \in 0..(SampleDen - 1) :
                  LET s == RMul(t, R(k, SampleDen))
                  IN  RLt(s, t) => ~TestAABB(Translate(arg.box1, VScale(arg.vel1, s)), arg.box2)
            /\ pc = "tick" =>
                  /\ CalculateAABB(atImpact).aabb = At
                  /\ ~InteriorOverlap(CalculateAABB(atImpact).aabb, CalculateAABB(obj1).aabb)

C4_Witness ==
    /\ pc = "tick" /\ ticks > 0
    /\ RLt(Zero, collisionTime) /\ RLt(collisionTime, One)
    /\ ~InteriorOverlap(arg.box1, arg.box2)
    /\ normalx = One /\ normaly = Zero

\* ------------------------------------------------------------------------
\* C5: single-axis motion straight at the obstacle over a gap g >= 0 with
\* displacement magnitude v > 0, g/v in [0,1], the other axis overlapping:
\* SweptAABB returns g/v and a normal that is nonzero only on the axis of
\* travel, with the sign opposite to the travel - both directions, g = 0 too
\* ------------------------------------------------------------------------
Other(c) == IF c = "x" THEN "y" ELSE "x"

NormalOn(c) == IF c = "x" THEN normalx ELSE normaly

C5_AxisAligned ==
    Returned =>
        \A c \in {"x", "y"} :
            LET o == Other(c)
                v == arg.vel1[c]
                g == IF RGt(v, Zero)
                     THEN RSub(arg.box2.min[c], arg.box1.max[c])
                     ELSE RSub(arg.box1.min[c], arg.box2.max[c])
            IN  ( /\ v # Zero
                  /\ arg.vel1[o] = Zero
                  /\ RLe(arg.box1.min[o], arg.box2.max[o])
                  /\ RLe(arg.box2.min[o], arg.box1.max[o])
                  /\ RGe(g, Zero)
                  /\ RLe(g, RAbs(v)) )
                =>
                ( /\ collisionTime = RDiv(g, RAbs(v))
                  /\ NormalOn(o) = Zero
                  /\ NormalOn(c) = (IF RGt(v, Zero) THEN RNeg(One) ELSE One) )

\* ------------------------------------------------------------------------
\* C6: with zero displacement on both axes SweptAABB returns 2.0 and the
\* normal (0,0), wherever the boxes are, overlapping boxes included
\* ------------------------------------------------------------------------
C6_ZeroVelocity ==
    (Returned /\ arg.vel1 = Vec(Zero, Zero)) =>
        (collisionTime = Two /\ normalx = Zero /\ normaly = Zero)

C6_Witness ==
    /\ Returned
    /\ arg.vel1 = Vec(Zero, Zero)
    /\ InteriorOverlap(arg.box1, arg.box2)
    /\ xEntryTime(arg.box1, arg.box2, arg.vel1) = NegInf
    /\ yEntryTime(arg.box1, arg.box2, arg.vel1) = NegInf

\* ------------------------------------------------------------------------
\* C7: two calls of SweptAABB with identical box1, box2, vel1 yield the
\* same time and the same normal in the caller's variables
\* ------------------------------------------------------------------------
C7_SameInputsSameResult == Len(hist) >= 2 => hist[1] = hist[2]

\* ------------------------------------------------------------------------
\* C8: no tunneling in the configured scenario: at no tick boundary is the
\* moving body's centre within the sum of the half-extents (0.30, less a
\* small tolerance) of the origin on both axes at once
\* ------------------------------------------------------------------------
SumHalfExtents == RAdd(InitObj1.scale.x, InitObj2.scale.x)
Tolerance == R(1, 1)

C8_NoTunneling ==
    pc = "tick" =>
        ~ ( /\ RLt(RAbs(obj2.position.x), RSub(SumHalfExtents, Tolerance))
            /\ RLt(RAbs(obj2.position.y), RSub(SumHalfExtents, Tolerance)) )

\* ------------------------------------------------------------------------
\* C9: in a tick whose swept test returns t <= 1, update leaves the moving
\* body at p + v*(t*dt) + v'*((1-t)*dt) with velocity v', v' being v with x
\* negated iff |normalx| > 1e-4 and y negated iff |normaly| > 1e-4; the
\* stationary body is advanced by the same two durations, which add up to dt
\* ------------------------------------------------------------------------
TestVelocity(a) == Vec(RDiv(a.vel1.x, physicsStep), RDiv(a.vel1.y, physicsStep))

C9_SplitStep ==
    [][ (pc = "tick" /\ RLe(collisionTime', One)) =>
          LET dt == physicsStep
              t == collisionTime'
              v == TestVelocity(arg')
              w == obj2'.velocity
              d1 == RMul(t, dt)
              d2 == RMul(RSub(One, t), dt)
          IN  /\ w.x = (IF RGt(RAbs(normalx'), NormalEps) THEN RNeg(v.x) ELSE v.x)
              /\ w.y = (IF RGt(RAbs(normaly'), NormalEps) THEN RNeg(v.y) ELSE v.y)
              /\ obj2'.position = VAdd(VAdd(obj2.position, VScale(v, d1)), VScale(w, d2))
              /\ obj1'.velocity = obj1.velocity
              /\ obj1'.position =
                    VAdd(VAdd(obj1.position, VScale(obj1.velocity, d1)), VScale(obj1.velocity, d2))
              /\ RAdd(d1, d2) = dt ]_vars

\* a tick that bounced on x only, part of the way through the tick
C9_Witness ==
    /\ pc = "tick" /\ ticks > 0
    /\ RLt(Zero, collisionTime) /\ RLt(collisionTime, One)
    /\ normalx = RNeg(One) /\ normaly = Zero
    /\ obj2.velocity.x = RNeg(TestVelocity(arg).x)
    /\ obj2.velocity.y = TestVelocity(arg).y

\* ------------------------------------------------------------------------
\* C10: in a tick whose swept test returns the sentinel 2.0, update moves
\* both bodies by the full dt with their current velocities and the
\* collision response changes no velocity
\* ------------------------------------------------------------------------
C10_NoCollisionStep ==
    [][ (pc = "tick" /\ collisionTime' = Two) =>
          LET v == TestVelocity(arg')
          IN  /\ obj2'.velocity = v
              /\ obj2'.position = VAdd(obj2.position, VScale(v, physicsStep))
              /\ obj1'.velocity = obj1.velocity
              /\ obj1'.position = VAdd(obj1.position, VScale(obj1.velocity, physicsStep)) ]_vars

C10_Witness ==
    /\ pc = "tick" /\ ticks > 0
    /\ collisionTime = Two
    /\ obj2.position # InitObj2.position

\* ------------------------------------------------------------------------
\* C11: at the head of a tick the moving body's x velocity is negated iff
\* |position.x| > 0.9 and its y velocity iff |position.y| > 0.8, the boxes
\* being computed from the position the test saw; a body beyond the x bound
\* ends the tick with the negation of the x velocity it started with
\* ------------------------------------------------------------------------
TestPosition(a) ==
    Vec(RDiv(RAdd(a.box1.min.x, a.box1.max.x), Two), RDiv(RAdd(a.box1.min.y, a.box1.max.y), Two))

C11_BoundaryBounce ==
    [][ pc = "tick" =>
          LET p == obj2.position
              v == obj2.velocity
              t == TestVelocity(arg')
          IN  /\ t.x = (IF RGt(RAbs(p.x), BoundX) THEN RNeg(v.x) ELSE v.x)
              /\ t.y = (IF RGt(RAbs(p.y), BoundY) THEN RNeg(v.y) ELSE v.y)
              /\ TestPosition(arg') = p
              /\ RGt(RAbs(p.x), BoundX) => obj2'.velocity.x = RNeg(v.x) ]_vars

\* a tick that began beyond the x bound, moving outwards, and ended moving inwards
C11_Witness ==
    /\ pc = "tick" /\ ticks > 0
    /\ RGt(TestPosition(arg).x, BoundX)
    /\ RLt(obj2.velocity.x, Zero)
    /\ RLt(obj2.position.x, TestPosition(arg).x)

\* ------------------------------------------------------------------------
\* C15: at every tick's collision test of the configured run the obstacle
\* obj1 has zero velocity and the subject obj2 a nonzero one, so the
\* displacement handed to SweptAABB is that of the only moving body
\* ------------------------------------------------------------------------
C15_OneBodyMoves ==
    pc = "tick" =>
        /\ obj1.velocity = Vec(Zero, Zero)
        /\ obj2.velocity # Vec(Zero, Zero)
        /\ ticks > 0 => /\ arg.vel1 # Vec(Zero, Zero)
                        /\ arg.box2 = CalculateAABB(obj1).aabb

\* after a collision response has changed the moving body's velocity
C15_Witness ==
    /\ pc = "tick" /\ ticks > 0
    /\ Collided
    /\ obj2.velocity # TestVelocity(arg)
    /\ obj1.velocity = Vec(Zero, Zero)

\* ------------------------------------------------------------------------
\* C16: on a reported collision with xEntryTime # yEntryTime the normal is
\* nonzero only on the axis with the larger entry time: +1 there if that
\* axis's entry distance is negative, -1 if it is not, and 0 on the other
\* ------------------------------------------------------------------------
C16_NormalOnLaterAxis ==
    ( /\ Returned
      /\ Collided
      /\ xEntryTime(arg.box1, arg.box2, arg.vel1) # yEntryTime(arg.box1, arg.box2, arg.vel1) )
    =>
    \A c \in {"x", "y"} :
        RGt(EntryTime(arg.box1, arg.box2, arg.vel1, c),
            EntryTime(arg.box1, arg.box2, arg.vel1, Other(c)))
        =>
        /\ NormalOn(Other(c)) = Zero
        /\ NormalOn(c) = (IF RLt(DistanceEntry(arg.box1, arg.box2, arg.vel1, c), Zero)
                          THEN One ELSE RNeg(One))

\* both axes move, y is entered later, from above
C16_Witness ==
    /\ Returned
    /\ Collided
    /\ IsFinite(xEntryTime(arg.box1, arg.box2, arg.vel1))
    /\ RGt(yEntryTime(arg.box1, arg.box2, arg.vel1), xEntryTime(arg.box1, arg.box2, arg.vel1))
    /\ RLt(yDistanceEntry(arg.box1, arg.box2, arg.vel1), Zero)
    /\ normalx = Zero /\ normaly = One

\* ------------------------------------------------------------------------
\* C17: on a reported collision with xEntryTime = yEntryTime SweptAABB
\* returns the collision time and writes neither normal: after the call the
\* caller's two variables hold what they held before it, and in update that
\* is what its uninitialised locals happened to hold
\* ------------------------------------------------------------------------
Tie(a) ==
    /\ ~NoCollision(a.box1, a.box2, a.vel1)
    /\ xEntryTime(a.box1, a.box2, a.vel1) = yEntryTime(a.box1, a.box2, a.vel1)

C17_TieKeepsNormals ==
    [][ /\ (pc = "call" /\ Tie(arg)) =>
              /\ collisionTime' = xEntryTime(arg.box1, arg.box2, arg.vel1)
              /\ RLe(Zero, collisionTime') /\ RLe(collisionTime', One)
              /\ normalx' = normalx
              /\ normaly' = normaly
        /\ (pc = "tick" /\ Tie(arg')) =>
              /\ collisionTime' = xEntryTime(arg'.box1, arg'.box2, arg'.vel1)
              /\ normalx' \in Garbage
              /\ normaly' \in Garbage ]_vars

\* a tie in update that came back with a normal SweptAABB never writes
C17_Witness ==
    /\ pc = "tick" /\ ticks > 0
    /\ Tie(arg)
    /\ Collided
    /\ <<normalx, normaly>> \notin FiveNormals

\* ------------------------------------------------------------------------
\* C19: on an axis with zero displacement the entry time is -infinity
\* exactly when the closed projections of the two boxes on that axis overlap
\* or touch, and 2.0 (so that the call answers 2.0) exactly when a positive
\* gap separates them; the exit time is +infinity either way, and neither
\* is a quotient by the zero displacement
\* ------------------------------------------------------------------------
ProjectionsMeet(a, c) ==
    RLe(a.box1.min[c], a.box2.max[c]) /\ RLe(a.box2.min[c], a.box1.max[c])

C19_StillAxis ==
    Returned =>
        \A c \in {"x", "y"} :
            arg.vel1[c] = Zero =>
                /\ EntryTime(arg.box1, arg.box2, arg.vel1, c) = NegInf <=> ProjectionsMeet(arg, c)
                /\ EntryTime(arg.box1, arg.box2, arg.vel1, c) = Two <=> ~ProjectionsMeet(arg, c)
                /\ ExitTime(arg.box1, arg.box2, arg.vel1, c) = PosInf
                /\ ~ProjectionsMeet(arg, c) => collisionTime = Two

\* x does not move and the boxes only touch on it; y is closed in time: a hit
C19_Witness ==
    /\ Returned
    /\ arg.vel1.x = Zero
    /\ arg.box1.max.x = arg.box2.min.x
    /\ xEntryTime(arg.box1, arg.box2, arg.vel1) = NegInf
    /\ Collided

\* ------------------------------------------------------------------------
\* C20: if the interiors of box1 and box2 are disjoint at the start and
\* SweptAABB answers 2.0 for displacement vel1, then box1 moved by s*vel1
\* has no interior overlap with box2 for the sampled s in [0,1]
\* ------------------------------------------------------------------------
C20_NoMissedCollision ==
    (AfterCall /\ collisionTime = Two /\ ~InteriorOverlap(arg.box1, arg.box2)) =>
        \A k \in 0..SampleDen :
            ~InteriorOverlap(Translate(arg.box1, VScale(arg.vel1, R(k, SampleDen))), arg.box2)

\* a miss that passes the corner: each axis is entered within the step, but
\* one is left before the other is entered
C20_Witness ==
    /\ Returned
    /\ collisionTime = Two
    /\ ~TestAABB(arg.box1, arg.box2)
    /\ arg.box1.min # arg.box1.max
    /\ RGe(xEntryTime(arg.box1, arg.box2, arg.vel1), Zero)
    /\ RLe(xEntryTime(arg.box1, arg.box2, arg.vel1), One)
    /\ RGe(yEntryTime(arg.box1, arg.box2, arg.vel1), Zero)
    /\ RLe(yEntryTime(arg.box1, arg.box2, arg.vel1), One)
    /\ IsFinite(exitTime(arg.box1, arg.box2, arg.vel1))

\* ------------------------------------------------------------------------
\* C12: a checkTime call that adds the clamped delta D to an accumulator
\* holding a calls update floor((a + D) / physicsStep) times and leaves
\* (a + D) - physicsStep * floor((a + D) / physicsStep); a delta of 0.05 on
\* an empty accumulator gives 4 calls and leaves 0.002
\* ------------------------------------------------------------------------
Floor(q) == q.n \div q.d

\* checkTime has returned and its last call added time
AddedTime == pc = "frame" /\ RGt(frameDt, physicsStep)

C12_UpdateCount ==
    AddedTime =>
        LET due == Floor(RDiv(RAdd(accBefore, frameDt), physicsStep))
        IN  /\ calls = due
            /\ accumulator = RSub(RAdd(accBefore, frameDt), RMul(physicsStep, R(due, 1)))
            /\ (accBefore = Zero /\ frameDt = R(50, 1000)) =>
                  (calls = 4 /\ accumulator = R(2, 1000))

\* a delta of 0.05 on an empty accumulator, after earlier frames
C12_Witness ==
    /\ AddedTime
    /\ ticks > 4
    /\ accBefore = Zero
    /\ frameDt = R(50, 1000)
    /\ calls = 4
    /\ accumulator = R(2, 1000)

\* ------------------------------------------------------------------------
\* C14: after every checkTime call 0 <= accumulator < physicsStep; inside
\* the call update runs while a full step remains, each run takes exactly
\* physicsStep off the accumulator, and what is left below one step is still
\* there when the next call adds to it
\* ------------------------------------------------------------------------
C14_AccumulatorBelowStep ==
    /\ [](pc = "frame" => (RLe(Zero, accumulator) /\ RLt(accumulator, physicsStep)))
    /\ [][ /\ pc = "loop" =>
                IF RGe(accumulator, physicsStep)
                THEN /\ ticks' = ticks + 1
                     /\ accumulator' = RSub(accumulator, physicsStep)
                     /\ pc' = "loop"
                ELSE /\ ticks' = ticks
                     /\ accumulator' = accumulator
                     /\ pc' = "frame"
           /\ pc = "frame" =>
                /\ accumulator' = RAdd(accumulator, RSub(total', total))
                /\ ticks' = ticks ]_vars

\* a call that found a leftover, ran updates and left another leftover
C14_Witness ==
    /\ pc = "frame"
    /\ calls > 0
    /\ RGt(accBefore, Zero)
    /\ RGt(accumulator, Zero)
    /\ accumulator # accBefore

\* ------------------------------------------------------------------------
\* C13: on every call of checkTime the time elapsed since the previous
\* measurement (timebase, the clock value the previous addition was
\* measured at), clamped to at most 0.25, is added to the accumulator
\* ------------------------------------------------------------------------
C13_EveryFrameAdds ==
    [][ pc = "frame" =>
          accumulator' = RAdd(accumulator, RMin(RSub(time', timebase), MaxFrame)) ]_vars

\* C13 as the code has it: a call of checkTime adds the time elapsed since
\* timebase, clamped to at most 0.25, and moves timebase to the clock only
\* when that time exceeds physicsStep; otherwise it adds nothing and leaves
\* timebase where it was, so that the time is measured again by a later call
C13_AddsWhenStepElapsed ==
    [][ pc = "frame" =>
          IF RGt(RSub(time', timebase), physicsStep)
          THEN /\ accumulator' = RAdd(accumulator, RMin(RSub(time', timebase), MaxFrame))
               /\ timebase' = time'
          ELSE /\ accumulator' = accumulator
               /\ timebase' = timebase ]_vars

\* a call that added the time of two frames, the frame before having added none
C13_Witness ==
    /\ pc = "loop"
    /\ calls = 0
    /\ ticks > 0
    /\ frameDt = R(24, 1000)
    /\ timebase = time
    /\ accumulator = RAdd(accBefore, R(24, 1000))

\* ------------------------------------------------------------------------
\* C18: in the collision response a velocity component of the moving body
\* whose magnitude is below the epsilon 1e-4 is left unreflected, even when
\* the swept test reports a nonzero normal on that axis
\* ------------------------------------------------------------------------
VelocityEps == R(1, 1)           \* 1e-4 in the unit of the positions

VelocityOn(v, c) == IF c = "x" THEN v.x ELSE v.y

C18_SmallVelocityUnreflected ==
    (pc = "updated" /\ Collided) =>
        \A c \in {"x", "y"} :
            RLt(RAbs(VelocityOn(TestVelocity(arg), c)), VelocityEps) =>
                VelocityOn(obj2.velocity, c) = VelocityOn(TestVelocity(arg), c)

\* C18 as the code has it: the epsilon is compared with the normal, not with
\* the velocity: a velocity component is negated exactly when the normal
\* handed back on its axis exceeds 1e-4 in magnitude, however small the
\* component is
C18_ReflectByNormal ==
    (pc = "updated" /\ Collided) =>
        \A c \in {"x", "y"} :
            VelocityOn(obj2.velocity, c) =
                (IF RGt(RAbs(NormalOn(c)), NormalEps)
                 THEN RNeg(VelocityOn(TestVelocity(arg), c))
                 ELSE VelocityOn(TestVelocity(arg), c))

\* an x velocity of 0.00005 in magnitude, bounced off the obstacle's face
C18_Witness ==
    /\ pc = "updated"
    /\ Collided
    /\ TestVelocity(arg).x # Zero
    /\ RLt(RAbs(TestVelocity(arg).x), VelocityEps)
    /\ RAbs(normalx) = One
    /\ obj2.velocity.x = RNeg(TestVelocity(arg).x)

\* ------------------------------------------------------------------------
\* C21: if box1 and box2 strictly overlap on both axes when SweptAABB is
\* called, both axis entry times are negative and the answer is 2.0 with the
\* normal (0,0), whatever the displacement; in update the body then moves by
\* the full dt with the velocity it had: the penetration is not detected
\* ------------------------------------------------------------------------
C21_PenetrationUndetected ==
    (ticks > 0 /\ InteriorOverlap(arg.box1, arg.box2)) =>
        /\ RLt(xEntryTime(arg.box1, arg.box2, arg.vel1), Zero)
        /\ RLt(yEntryTime(arg.box1, arg.box2, arg.vel1), Zero)
        /\ collisionTime = Two
        /\ normalx = Zero /\ normaly = Zero
        /\ obj2.velocity = TestVelocity(arg)
        /\ obj2.position = VAdd(TestPosition(arg), arg.vel1)

\* a tick of the configured run that began with the body inside the obstacle
C21_Witness ==
    /\ pc = "tick" /\ ticks > 0
    /\ InteriorOverlap(arg.box1, arg.box2)
    /\ collisionTime = Two
    /\ obj2.position # TestPosition(arg)

\* ------------------------------------------------------------------------
\* C22: a tick changes the components of the moving body's velocity in sign
\* only: at every tick boundary of the configured run |velocity.x| and
\* |velocity.y| are the initial 0.9, whatever bounces have happened
\* ------------------------------------------------------------------------
C22_SpeedKept ==
    /\ [](pc = "tick" => /\ RAbs(obj2.velocity.x) = speed
                         /\ RAbs(obj2.velocity.y) = speed)
    /\ [][ pc = "tick" => /\ RAbs(obj2'.velocity.x) = RAbs(obj2.velocity.x)
                          /\ RAbs(obj2'.velocity.y) = RAbs(obj2.velocity.y)
                          /\ RAbs(atImpact'.velocity.x) = RAbs(obj2.velocity.x)
                          /\ RAbs(atImpact'.velocity.y) = RAbs(obj2.velocity.y) ]_vars

\* a collision response late in the run, boundary bounces behind it
C22_Witness ==
    /\ pc = "tick"
    /\ ticks > 100
    /\ Collided
    /\ obj2.velocity.x = RNeg(TestVelocity(arg).x)
    /\ RAbs(obj2.velocity.x) = speed

\* ------------------------------------------------------------------------
\* C23: at every tick boundary of the configured run the moving body is at
\* |x| <= 0.9 + |velocity.x|*dt and |y| <= 0.8 + |velocity.y|*dt (0.9108 and
\* 0.8108): it passes a world bound by at most one tick's displacement, and
\* a body beyond a bound is still on its way out, so the bounce of the next
\* tick turns it back
\* ------------------------------------------------------------------------
Outward(p, v) == (RGt(p, Zero) /\ RGt(v, Zero)) \/ (RLt(p, Zero) /\ RLt(v, Zero))

C23_PositionBound ==
    pc = "tick" =>
        /\ RLe(RAbs(obj2.position.x), RAdd(BoundX, RMul(RAbs(obj2.velocity.x), physicsStep)))
        /\ RLe(RAbs(obj2.position.y), RAdd(BoundY, RMul(RAbs(obj2.velocity.y), physicsStep)))
        /\ RLe(RAbs(obj2.position.x), R(9108, 1))
        /\ RLe(RAbs(obj2.position.y), R(8108, 1))
        /\ RGt(RAbs(obj2.position.x), BoundX) => Outward(obj2.position.x, obj2.velocity.x)
        /\ RGt(RAbs(obj2.position.y), BoundY) => Outward(obj2.position.y, obj2.velocity.y)

\* the body beyond the y bound on the low side, after a collision response
\* earlier in the run
C23_Witness ==
    /\ pc = "tick"
    /\ RLt(obj2.position.y, RNeg(BoundY))
    /\ ticks > 38

\* ------------------------------------------------------------------------
\* C24: the scheduler conserves simulated time: at any moment physicsStep
\* times the number of update calls made so far, plus the accumulator, is
\* the sum of the clamped frame deltas added to the accumulator so far
\* ------------------------------------------------------------------------
C24_TimeConserved ==
    RAdd(RMul(physicsStep, R(ticks, 1)), accumulator) = total

\* between two frames, with a leftover, after a stall cut down by the cap
C24_Witness ==
    /\ pc = "frame"
    /\ ticks > 20
    /\ RGt(accumulator, Zero)
    /\ RLt(total, timebase)

\* ------------------------------------------------------------------------
\* C25: a checkTime call that finds no more than physicsStep elapsed since
\* timebase runs no update and leaves accumulator and timebase as they
\* were; one that finds more sets timebase to the clock and runs at least
\* one update before it returns
\* ------------------------------------------------------------------------
C25_Threshold ==
    /\ [][ pc = "frame" =>
             IF RLe(RSub(time', timebase), physicsStep)
             THEN /\ pc' = "frame"
                  /\ ticks' = ticks
                  /\ calls' = 0
                  /\ accumulator' = accumulator
                  /\ timebase' = timebase
             ELSE /\ pc' = "loop"
                  /\ timebase' = time'
                  /\ RGe(accumulator', physicsStep) ]_vars
    /\ [](AddedTime => calls >= 1)
    /\ []((pc = "frame" /\ RLe(frameDt, physicsStep)) => calls = 0)

\* a call that found exactly physicsStep elapsed and did nothing
C25_Witness ==
    /\ pc = "frame"
    /\ ticks > 0
    /\ frameDt = physicsStep
    /\ calls = 0
    /\ RSub(time, timebase) = physicsStep
    /\ accumulator = accBefore

\* ------------------------------------------------------------------------
\* C26: every checkTime call returns, and however long the measured gap it
\* makes at most 21 update calls: the delta is cut to 0.25 and the
\* accumulator comes in below physicsStep
\* ------------------------------------------------------------------------
C26_BoundedCatchUp ==
    /\ [](calls <= 21)
    /\ [](RLt(R(calls, 1), RDiv(RAdd(physicsStep, MaxFrame), physicsStep)))
    /\ [](pc = "loop" => RLt(RAdd(RMul(physicsStep, R(calls, 1)), accumulator),
                             RAdd(physicsStep, MaxFrame)))
    /\ (pc = "loop" ~> pc = "frame")

\* a stall of 0.3 s on a leftover of 0.002: 21 updates in one call
C26_Witness ==
    /\ pc = "frame"
    /\ calls = 21
    /\ frameDt = MaxFrame
    /\ accBefore = R(2, 1000)
    /\ accumulator = Zero

====
